---- MODULE Spec2Model ----
(***************************************************************************)
(* Model of services/tenant-ui/frontend/src/helpers/constants.ts: the      *)
(* exported objects TABLE_OPT, API_PATH, CONNECTION_STATUSES and           *)
(* RESERVATION_STATUSES, and a consumer that calls the templated paths of  *)
(* API_PATH and (in SpecWrite) assigns to properties of the objects.       *)
(*                                                                         *)
(* A path is a sequence of one-character strings, so that its first        *)
(* character, its length and its concatenations are what the formulas      *)
(* below talk about.  The status tokens are opaque and are plain strings.  *)
(***************************************************************************)
EXTENDS Integers, Sequences, FiniteSets, TLC

\* ------------------------------------------------------------------------
\* Inputs: the identifiers a consumer passes to the templated paths.

\* Longest identifier enumerated exhaustively over IdChars.
MaxIdLen == 2

\* Writes to the exported objects a consumer performs in SpecWrite.
MaxWrites == 1

IdChars == {"a", "/"}

RECURSIVE StringsUpTo(_)
StringsUpTo(n) ==
    IF n = 0 THEN {<< >>}
    ELSE LET shorter == StringsUpTo(n - 1)
         IN  shorter \cup {Append(s, c) : s \in shorter, c \in IdChars}

\* "abc-123", "conn-1", "x" and "x/invitation"
SampleIds ==
    { <<"a", "b", "c", "-", "1", "2", "3">>,
      <<"c", "o", "n", "n", "-", "1">>,
      <<"x">>,
      <<"x", "/", "i", "n", "v", "i", "t", "a", "t", "i", "o", "n">> }

Ids == StringsUpTo(MaxIdLen) \cup SampleIds

Slots == {"first", "second"}

\* ------------------------------------------------------------------------
\* The module's initializers (constants.ts, lines 1-99).

\* Mutants of TemplateLiteral: the id percent-encoded ("/" as "%2F"), and
\* an empty id rejected.
RECURSIVE EncodeURIComponent(_)
EncodeURIComponent(id) ==
    IF id = << >> THEN << >>
    ELSE (IF Head(id) = "/" THEN <<"%", "2", "F">> ELSE <<Head(id)>>)
           \o EncodeURIComponent(Tail(id))

TemplateLiteralEncoded(head, id, tail) ==
    head \o EncodeURIComponent(id) \o tail

TypeError == <<"TypeError">>

TemplateLiteralChecked(head, id, tail) ==
    IF id = << >> THEN TypeError ELSE head \o id \o tail

\* A template literal `head${id}tail` with a string id: the head, the id
\* itself (ToString of a string is that string) and the tail, concatenated.
TemplateLiteral(head, id, tail) == head \o id \o tail

\* CONFIG: '/config'
CONFIG ==
    <<"/", "c", "o", "n", "f", "i", "g">>

\* EMAIL_CONFIRMATION: '/email/reservationConfirmation'
EMAIL_CONFIRMATION ==
    <<"/", "e", "m", "a", "i", "l", "/", "r", "e", "s", "e", "r", "v", "a",
      "t", "i", "o", "n", "C", "o", "n", "f", "i", "r", "m", "a", "t", "i",
      "o", "n">>

\* EMAIL_STATUS: '/email/reservationStatus'
EMAIL_STATUS ==
    <<"/", "e", "m", "a", "i", "l", "/", "r", "e", "s", "e", "r", "v", "a",
      "t", "i", "o", "n", "S", "t", "a", "t", "u", "s">>

\* INNKEEPER_TOKEN: '/innkeeper/token'
INNKEEPER_TOKEN ==
    <<"/", "i", "n", "n", "k", "e", "e", "p", "e", "r", "/", "t", "o", "k",
      "e", "n">>

\* INNKEEPER_TENANTS: '/innkeeper/tenants/'
INNKEEPER_TENANTS ==
    <<"/", "i", "n", "n", "k", "e", "e", "p", "e", "r", "/", "t", "e", "n",
      "a", "n", "t", "s", "/">>

\* INNKEEPER_TENANT: (id: string) => `/innkeeper/tenants/${id}`
INNKEEPER_TENANT(id) ==
    TemplateLiteral(
      <<"/", "i", "n", "n", "k", "e", "e", "p", "e", "r", "/", "t", "e", "n",
        "a", "n", "t", "s", "/">>,
      id,
      << >>)

\* INNKEEPER_RESERVATIONS: '/innkeeper/reservations/'
INNKEEPER_RESERVATIONS ==
    <<"/", "i", "n", "n", "k", "e", "e", "p", "e", "r", "/", "r", "e", "s",
      "e", "r", "v", "a", "t", "i", "o", "n", "s", "/">>

\* INNKEEPER_RESERVATIONS_APPROVE: (id: string) => `/innkeeper/reservations/${id}/approve`
INNKEEPER_RESERVATIONS_APPROVE(id) ==
    TemplateLiteral(
      <<"/", "i", "n", "n", "k", "e", "e", "p", "e", "r", "/", "r", "e", "s",
        "e", "r", "v", "a", "t", "i", "o", "n", "s", "/">>,
      id,
      <<"/", "a", "p", "p", "r", "o", "v", "e">>)

\* INNKEEPER_RESERVATIONS_DENY: (id: string) => `/innkeeper/reservations/${id}/deny`
INNKEEPER_RESERVATIONS_DENY(id) ==
    TemplateLiteral(
      <<"/", "i", "n", "n", "k", "e", "e", "p", "e", "r", "/", "r", "e", "s",
        "e", "r", "v", "a", "t", "i", "o", "n", "s", "/">>,
      id,
      <<"/", "d", "e", "n", "y">>)

\* OIDC_INNKEEPER_LOGIN: '/api/innkeeperLogin'
OIDC_INNKEEPER_LOGIN ==
    <<"/", "a", "p", "i", "/", "i", "n", "n", "k", "e", "e", "p", "e", "r",
      "L", "o", "g", "i", "n">>

\* TENANT_TOKEN: '/tenant/token'
TENANT_TOKEN ==
    <<"/", "t", "e", "n", "a", "n", "t", "/", "t", "o", "k", "e", "n">>

\* CONNECTIONS: '/connections'
CONNECTIONS ==
    <<"/", "c", "o", "n", "n", "e", "c", "t", "i", "o", "n", "s">>

\* Mutant of CONNECTION: the leading "/" left out.
CONNECTION_Relative(id) ==
    TemplateLiteral(
      <<"c", "o", "n", "n", "e", "c", "t", "i", "o", "n", "s", "/">>,
      id,
      << >>)

\* CONNECTION: (id: string) => `/connections/${id}`
CONNECTION(id) ==
    TemplateLiteral(
      <<"/", "c", "o", "n", "n", "e", "c", "t", "i", "o", "n", "s", "/">>,
      id,
      << >>)

\* CONNECTIONS_CREATE_INVITATION: '/connections/create-invitation'
CONNECTIONS_CREATE_INVITATION ==
    <<"/", "c", "o", "n", "n", "e", "c", "t", "i", "o", "n", "s", "/", "c",
      "r", "e", "a", "t", "e", "-", "i", "n", "v", "i", "t", "a", "t", "i",
      "o", "n">>

\* CONNECTIONS_INVITATION: (id: string) => `/connections/${id}/invitation`
CONNECTIONS_INVITATION(id) ==
    TemplateLiteral(
      <<"/", "c", "o", "n", "n", "e", "c", "t", "i", "o", "n", "s", "/">>,
      id,
      <<"/", "i", "n", "v", "i", "t", "a", "t", "i", "o", "n">>)

\* HOLDER_CREDENTIALS: '/tenant/v1/holder/credentials/'
HOLDER_CREDENTIALS ==
    <<"/", "t", "e", "n", "a", "n", "t", "/", "v", "1", "/", "h", "o", "l",
      "d", "e", "r", "/", "c", "r", "e", "d", "e", "n", "t", "i", "a", "l",
      "s", "/">>

\* HOLDER_CREDENTIALS_ACCEPT_OFFER: (id: string) => `/tenant/v1/holder/credentials/${id}/accept-offer`
HOLDER_CREDENTIALS_ACCEPT_OFFER(id) ==
    TemplateLiteral(
      <<"/", "t", "e", "n", "a", "n", "t", "/", "v", "1", "/", "h", "o", "l",
        "d", "e", "r", "/", "c", "r", "e", "d", "e", "n", "t", "i", "a", "l",
        "s", "/">>,
      id,
      <<"/", "a", "c", "c", "e", "p", "t", "-", "o", "f", "f", "e", "r">>)

\* HOLDER_CREDENTIALS_REJECT_OFFER: (id: string) => `/tenant/v1/holder/credentials/${id}/reject-offer`
HOLDER_CREDENTIALS_REJECT_OFFER(id) ==
    TemplateLiteral(
      <<"/", "t", "e", "n", "a", "n", "t", "/", "v", "1", "/", "h", "o", "l",
        "d", "e", "r", "/", "c", "r", "e", "d", "e", "n", "t", "i", "a", "l",
        "s", "/">>,
      id,
      <<"/", "r", "e", "j", "e", "c", "t", "-", "o", "f", "f", "e", "r">>)

\* HOLDER_CREDENTIAL: (id: string) => `/tenant/v1/holder/credentials/${id}`
HOLDER_CREDENTIAL(id) ==
    TemplateLiteral(
      <<"/", "t", "e", "n", "a", "n", "t", "/", "v", "1", "/", "h", "o", "l",
        "d", "e", "r", "/", "c", "r", "e", "d", "e", "n", "t", "i", "a", "l",
        "s", "/">>,
      id,
      << >>)

\* HOLDER_PRESENTATIONS: '/tenant/v1/holder/presentations/'
HOLDER_PRESENTATIONS ==
    <<"/", "t", "e", "n", "a", "n", "t", "/", "v", "1", "/", "h", "o", "l",
      "d", "e", "r", "/", "p", "r", "e", "s", "e", "n", "t", "a", "t", "i",
      "o", "n", "s", "/">>

\* HOLDER_PRESENTATION: (id: string) => `/tenant/v1/holder/presentations/${id}`
HOLDER_PRESENTATION(id) ==
    TemplateLiteral(
      <<"/", "t", "e", "n", "a", "n", "t", "/", "v", "1", "/", "h", "o", "l",
        "d", "e", "r", "/", "p", "r", "e", "s", "e", "n", "t", "a", "t", "i",
        "o", "n", "s", "/">>,
      id,
      << >>)

\* ISSUER_CREDENTIALS: '/tenant/v1/issuer/credentials/'
ISSUER_CREDENTIALS ==
    <<"/", "t", "e", "n", "a", "n", "t", "/", "v", "1", "/", "i", "s", "s",
      "u", "e", "r", "/", "c", "r", "e", "d", "e", "n", "t", "i", "a", "l",
      "s", "/">>

\* ISSUER_CREDENTIAL: (id: string) => `/tenant/v1/issuer/credentials/${id}`
ISSUER_CREDENTIAL(id) ==
    TemplateLiteral(
      <<"/", "t", "e", "n", "a", "n", "t", "/", "v", "1", "/", "i", "s", "s",
        "u", "e", "r", "/", "c", "r", "e", "d", "e", "n", "t", "i", "a", "l",
        "s", "/">>,
      id,
      << >>)

\* ISSUER_CREDENTIAL_REVOKE: (id: string) => `/tenant/v1/issuer/credentials/${id}/revoke-credential`
ISSUER_CREDENTIAL_REVOKE(id) ==
    TemplateLiteral(
      <<"/", "t", "e", "n", "a", "n", "t", "/", "v", "1", "/", "i", "s", "s",
        "u", "e", "r", "/", "c", "r", "e", "d", "e", "n", "t", "i", "a", "l",
        "s", "/">>,
      id,
      <<"/", "r", "e", "v", "o", "k", "e", "-", "c", "r", "e", "d", "e", "n",
        "t", "i", "a", "l">>)

\* VERIFIER_PRESENTATIONS: '/tenant/v1/verifier/presentations/'
VERIFIER_PRESENTATIONS ==
    <<"/", "t", "e", "n", "a", "n", "t", "/", "v", "1", "/", "v", "e", "r",
      "i", "f", "i", "e", "r", "/", "p", "r", "e", "s", "e", "n", "t", "a",
      "t", "i", "o", "n", "s", "/">>

\* VERIFIER_PRESENTATION: (id: string) => `/tenant/v1/verifier/presentations/${id}`
VERIFIER_PRESENTATION(id) ==
    TemplateLiteral(
      <<"/", "t", "e", "n", "a", "n", "t", "/", "v", "1", "/", "v", "e", "r",
        "i", "f", "i", "e", "r", "/", "p", "r", "e", "s", "e", "n", "t", "a",
        "t", "i", "o", "n", "s", "/">>,
      id,
      << >>)

\* VERIFIER_PRESENTATION_ADHOC_REQUEST: '/tenant/v1/verifier/presentations/adhoc-request'
VERIFIER_PRESENTATION_ADHOC_REQUEST ==
    <<"/", "t", "e", "n", "a", "n", "t", "/", "v", "1", "/", "v", "e", "r",
      "i", "f", "i", "e", "r", "/", "p", "r", "e", "s", "e", "n", "t", "a",
      "t", "i", "o", "n", "s", "/", "a", "d", "h", "o", "c", "-", "r", "e",
      "q", "u", "e", "s", "t">>

\* VERIFIER_PRESENTATION_TEMPLATES: '/tenant/v1/verifier/presentation_templates/'
VERIFIER_PRESENTATION_TEMPLATES ==
    <<"/", "t", "e", "n", "a", "n", "t", "/", "v", "1", "/", "v", "e", "r",
      "i", "f", "i", "e", "r", "/", "p", "r", "e", "s", "e", "n", "t", "a",
      "t", "i", "o", "n", "_", "t", "e", "m", "p", "l", "a", "t", "e", "s",
      "/">>

\* GOVERNANCE_SCHEMA_TEMPLATES: '/tenant/v1/governance/schema_templates/'
GOVERNANCE_SCHEMA_TEMPLATES ==
    <<"/", "t", "e", "n", "a", "n", "t", "/", "v", "1", "/", "g", "o", "v",
      "e", "r", "n", "a", "n", "c", "e", "/", "s", "c", "h", "e", "m", "a",
      "_", "t", "e", "m", "p", "l", "a", "t", "e", "s", "/">>

\* GOVERNANCE_SCHEMA_TEMPLATES_IMPORT: '/tenant/v1/governance/schema_templates/import'
GOVERNANCE_SCHEMA_TEMPLATES_IMPORT ==
    <<"/", "t", "e", "n", "a", "n", "t", "/", "v", "1", "/", "g", "o", "v",
      "e", "r", "n", "a", "n", "c", "e", "/", "s", "c", "h", "e", "m", "a",
      "_", "t", "e", "m", "p", "l", "a", "t", "e", "s", "/", "i", "m", "p",
      "o", "r", "t">>

\* GOVERNANCE_SCHEMA_TEMPLATE: (id: string) => `/tenant/v1/governance/schema_templates/${id}`
GOVERNANCE_SCHEMA_TEMPLATE(id) ==
    TemplateLiteral(
      <<"/", "t", "e", "n", "a", "n", "t", "/", "v", "1", "/", "g", "o", "v",
        "e", "r", "n", "a", "n", "c", "e", "/", "s", "c", "h", "e", "m", "a",
        "_", "t", "e", "m", "p", "l", "a", "t", "e", "s", "/">>,
      id,
      << >>)

\* GOVERNANCE_CREDENTIAL_TEMPLATES: '/tenant/v1/governance/credential_templates/'
GOVERNANCE_CREDENTIAL_TEMPLATES ==
    <<"/", "t", "e", "n", "a", "n", "t", "/", "v", "1", "/", "g", "o", "v",
      "e", "r", "n", "a", "n", "c", "e", "/", "c", "r", "e", "d", "e", "n",
      "t", "i", "a", "l", "_", "t", "e", "m", "p", "l", "a", "t", "e", "s",
      "/">>

\* GOVERNANCE_CREDENTIAL_TEMPLATE: (id: string) => `/tenant/v1/governance/credential_templates/${id}`
GOVERNANCE_CREDENTIAL_TEMPLATE(id) ==
    TemplateLiteral(
      <<"/", "t", "e", "n", "a", "n", "t", "/", "v", "1", "/", "g", "o", "v",
        "e", "r", "n", "a", "n", "c", "e", "/", "c", "r", "e", "d", "e", "n",
        "t", "i", "a", "l", "_", "t", "e", "m", "p", "l", "a", "t", "e", "s",
        "/">>,
      id,
      << >>)

\* BASICMESSAGES: '/basicmessages'
BASICMESSAGES ==
    <<"/", "b", "a", "s", "i", "c", "m", "e", "s", "s", "a", "g", "e", "s">>

\* Mutant of BASICMESSAGES_SEND: the tail of CONNECTIONS_INVITATION pasted.
BASICMESSAGES_SEND_Invitation(connId) ==
    TemplateLiteral(
      <<"/", "c", "o", "n", "n", "e", "c", "t", "i", "o", "n", "s", "/">>,
      connId,
      <<"/", "i", "n", "v", "i", "t", "a", "t", "i", "o", "n">>)

\* BASICMESSAGES_SEND: (connId: string) => `/connections/${connId}/send-message`
BASICMESSAGES_SEND(connId) ==
    TemplateLiteral(
      <<"/", "c", "o", "n", "n", "e", "c", "t", "i", "o", "n", "s", "/">>,
      connId,
      <<"/", "s", "e", "n", "d", "-", "m", "e", "s", "s", "a", "g", "e">>)

\* TENANT_SELF: '/tenant'
TENANT_SELF ==
    <<"/", "t", "e", "n", "a", "n", "t">>

\* TENANT_ENDORSER_CONNECTION: '/tenant/endorser-connection'
TENANT_ENDORSER_CONNECTION ==
    <<"/", "t", "e", "n", "a", "n", "t", "/", "e", "n", "d", "o", "r", "s",
      "e", "r", "-", "c", "o", "n", "n", "e", "c", "t", "i", "o", "n">>

\* TENANT_ENDORSER_INFO: '/tenant/endorser-info'
TENANT_ENDORSER_INFO ==
    <<"/", "t", "e", "n", "a", "n", "t", "/", "e", "n", "d", "o", "r", "s",
      "e", "r", "-", "i", "n", "f", "o">>

\* TENANT_REGISTER_PUBLIC_DID: '/tenant/register-public-did'
TENANT_REGISTER_PUBLIC_DID ==
    <<"/", "t", "e", "n", "a", "n", "t", "/", "r", "e", "g", "i", "s", "t",
      "e", "r", "-", "p", "u", "b", "l", "i", "c", "-", "d", "i", "d">>

\* Mutant of MULTITENANCY_RESERVATIONS: a trailing slash, as the other
\* collection paths have.
MULTITENANCY_RESERVATIONS_Slash ==
    <<"/", "m", "u", "l", "t", "i", "t", "e", "n", "a", "n", "c", "y", "/",
      "r", "e", "s", "e", "r", "v", "a", "t", "i", "o", "n", "s", "/">>

\* MULTITENANCY_RESERVATIONS: '/multitenancy/reservations'
MULTITENANCY_RESERVATIONS ==
    <<"/", "m", "u", "l", "t", "i", "t", "e", "n", "a", "n", "c", "y", "/",
      "r", "e", "s", "e", "r", "v", "a", "t", "i", "o", "n", "s">>

\* MULTITENANCY_RESERVATION: (resId: string) => `/multitenancy/reservations/${resId}`
MULTITENANCY_RESERVATION(resId) ==
    TemplateLiteral(
      <<"/", "m", "u", "l", "t", "i", "t", "e", "n", "a", "n", "c", "y", "/",
        "r", "e", "s", "e", "r", "v", "a", "t", "i", "o", "n", "s", "/">>,
      resId,
      << >>)

\* MULTITENANCY_RESERVATION_CHECK_IN: (resId: string) => `/multitenancy/reservations/${resId}/check-in`
MULTITENANCY_RESERVATION_CHECK_IN(resId) ==
    TemplateLiteral(
      <<"/", "m", "u", "l", "t", "i", "t", "e", "n", "a", "n", "c", "y", "/",
        "r", "e", "s", "e", "r", "v", "a", "t", "i", "o", "n", "s", "/">>,
      resId,
      <<"/", "c", "h", "e", "c", "k", "-", "i", "n">>)

\* MULTITENANCY_TENANT_TOKEN: (tenantId: string) => `/multitenancy/tenant/${tenantId}/token`
MULTITENANCY_TENANT_TOKEN(tenantId) ==
    TemplateLiteral(
      <<"/", "m", "u", "l", "t", "i", "t", "e", "n", "a", "n", "c", "y", "/",
        "t", "e", "n", "a", "n", "t", "/">>,
      tenantId,
      <<"/", "t", "o", "k", "e", "n">>)

\* MULTITENANCY_WALLET_TOKEN: (tenantId: string) => `/multitenancy/wallet/${tenantId}/token`
MULTITENANCY_WALLET_TOKEN(tenantId) ==
    TemplateLiteral(
      <<"/", "m", "u", "l", "t", "i", "t", "e", "n", "a", "n", "c", "y", "/",
        "w", "a", "l", "l", "e", "t", "/">>,
      tenantId,
      <<"/", "t", "o", "k", "e", "n">>)

\* WALLET_DID_PUBLIC: '/wallet/did/public'
WALLET_DID_PUBLIC ==
    <<"/", "w", "a", "l", "l", "e", "t", "/", "d", "i", "d", "/", "p", "u",
      "b", "l", "i", "c">>

\* The closures of API_PATH are held by reference to their code.
TemplatedNames ==
    { "INNKEEPER_TENANT", "INNKEEPER_RESERVATIONS_APPROVE",
      "INNKEEPER_RESERVATIONS_DENY", "CONNECTION", "CONNECTIONS_INVITATION",
      "HOLDER_CREDENTIALS_ACCEPT_OFFER", "HOLDER_CREDENTIALS_REJECT_OFFER",
      "HOLDER_CREDENTIAL", "HOLDER_PRESENTATION", "ISSUER_CREDENTIAL",
      "ISSUER_CREDENTIAL_REVOKE", "VERIFIER_PRESENTATION",
      "GOVERNANCE_SCHEMA_TEMPLATE", "GOVERNANCE_CREDENTIAL_TEMPLATE",
      "BASICMESSAGES_SEND", "MULTITENANCY_RESERVATION",
      "MULTITENANCY_RESERVATION_CHECK_IN", "MULTITENANCY_TENANT_TOKEN",
      "MULTITENANCY_WALLET_TOKEN" }

\* export const API_PATH = { ... }
API_PATH ==
  [
    CONFIG |-> CONFIG,
    EMAIL_CONFIRMATION |-> EMAIL_CONFIRMATION,
    EMAIL_STATUS |-> EMAIL_STATUS,
    INNKEEPER_TOKEN |-> INNKEEPER_TOKEN,
    INNKEEPER_TENANTS |-> INNKEEPER_TENANTS,
    INNKEEPER_TENANT |-> [lambda |-> "INNKEEPER_TENANT"],
    INNKEEPER_RESERVATIONS |-> INNKEEPER_RESERVATIONS,
    INNKEEPER_RESERVATIONS_APPROVE |-> [lambda |-> "INNKEEPER_RESERVATIONS_APPROVE"],
    INNKEEPER_RESERVATIONS_DENY |-> [lambda |-> "INNKEEPER_RESERVATIONS_DENY"],
    OIDC_INNKEEPER_LOGIN |-> OIDC_INNKEEPER_LOGIN,
    TENANT_TOKEN |-> TENANT_TOKEN,
    CONNECTIONS |-> CONNECTIONS,
    CONNECTION |-> [lambda |-> "CONNECTION"],
    CONNECTIONS_CREATE_INVITATION |-> CONNECTIONS_CREATE_INVITATION,
    CONNECTIONS_INVITATION |-> [lambda |-> "CONNECTIONS_INVITATION"],
    HOLDER_CREDENTIALS |-> HOLDER_CREDENTIALS,
    HOLDER_CREDENTIALS_ACCEPT_OFFER |-> [lambda |-> "HOLDER_CREDENTIALS_ACCEPT_OFFER"],
    HOLDER_CREDENTIALS_REJECT_OFFER |-> [lambda |-> "HOLDER_CREDENTIALS_REJECT_OFFER"],
    HOLDER_CREDENTIAL |-> [lambda |-> "HOLDER_CREDENTIAL"],
    HOLDER_PRESENTATIONS |-> HOLDER_PRESENTATIONS,
    HOLDER_PRESENTATION |-> [lambda |-> "HOLDER_PRESENTATION"],
    ISSUER_CREDENTIALS |-> ISSUER_CREDENTIALS,
    ISSUER_CREDENTIAL |-> [lambda |-> "ISSUER_CREDENTIAL"],
    ISSUER_CREDENTIAL_REVOKE |-> [lambda |-> "ISSUER_CREDENTIAL_REVOKE"],
    VERIFIER_PRESENTATIONS |-> VERIFIER_PRESENTATIONS,
    VERIFIER_PRESENTATION |-> [lambda |-> "VERIFIER_PRESENTATION"],
    VERIFIER_PRESENTATION_ADHOC_REQUEST |-> VERIFIER_PRESENTATION_ADHOC_REQUEST,
    VERIFIER_PRESENTATION_TEMPLATES |-> VERIFIER_PRESENTATION_TEMPLATES,
    GOVERNANCE_SCHEMA_TEMPLATES |-> GOVERNANCE_SCHEMA_TEMPLATES,
    GOVERNANCE_SCHEMA_TEMPLATES_IMPORT |-> GOVERNANCE_SCHEMA_TEMPLATES_IMPORT,
    GOVERNANCE_SCHEMA_TEMPLATE |-> [lambda |-> "GOVERNANCE_SCHEMA_TEMPLATE"],
    GOVERNANCE_CREDENTIAL_TEMPLATES |-> GOVERNANCE_CREDENTIAL_TEMPLATES,
    GOVERNANCE_CREDENTIAL_TEMPLATE |-> [lambda |-> "GOVERNANCE_CREDENTIAL_TEMPLATE"],
    BASICMESSAGES |-> BASICMESSAGES,
    BASICMESSAGES_SEND |-> [lambda |-> "BASICMESSAGES_SEND"],
    TENANT_SELF |-> TENANT_SELF,
    TENANT_ENDORSER_CONNECTION |-> TENANT_ENDORSER_CONNECTION,
    TENANT_ENDORSER_INFO |-> TENANT_ENDORSER_INFO,
    TENANT_REGISTER_PUBLIC_DID |-> TENANT_REGISTER_PUBLIC_DID,
    MULTITENANCY_RESERVATIONS |-> MULTITENANCY_RESERVATIONS,
    MULTITENANCY_RESERVATION |-> [lambda |-> "MULTITENANCY_RESERVATION"],
    MULTITENANCY_RESERVATION_CHECK_IN |-> [lambda |-> "MULTITENANCY_RESERVATION_CHECK_IN"],
    MULTITENANCY_TENANT_TOKEN |-> [lambda |-> "MULTITENANCY_TENANT_TOKEN"],
    MULTITENANCY_WALLET_TOKEN |-> [lambda |-> "MULTITENANCY_WALLET_TOKEN"],
    WALLET_DID_PUBLIC |-> WALLET_DID_PUBLIC
  ]

ConstantNames == DOMAIN API_PATH \ TemplatedNames

\* Calling a closure of API_PATH runs the arrow function it refers to.
Apply(closure, id) ==
    CASE
       closure.lambda = "INNKEEPER_TENANT" -> INNKEEPER_TENANT(id)
    [] closure.lambda = "INNKEEPER_RESERVATIONS_APPROVE" -> INNKEEPER_RESERVATIONS_APPROVE(id)
    [] closure.lambda = "INNKEEPER_RESERVATIONS_DENY" -> INNKEEPER_RESERVATIONS_DENY(id)
    [] closure.lambda = "CONNECTION" -> CONNECTION(id)
    [] closure.lambda = "CONNECTIONS_INVITATION" -> CONNECTIONS_INVITATION(id)
    [] closure.lambda = "HOLDER_CREDENTIALS_ACCEPT_OFFER" -> HOLDER_CREDENTIALS_ACCEPT_OFFER(id)
    [] closure.lambda = "HOLDER_CREDENTIALS_REJECT_OFFER" -> HOLDER_CREDENTIALS_REJECT_OFFER(id)
    [] closure.lambda = "HOLDER_CREDENTIAL" -> HOLDER_CREDENTIAL(id)
    [] closure.lambda = "HOLDER_PRESENTATION" -> HOLDER_PRESENTATION(id)
    [] closure.lambda = "ISSUER_CREDENTIAL" -> ISSUER_CREDENTIAL(id)
    [] closure.lambda = "ISSUER_CREDENTIAL_REVOKE" -> ISSUER_CREDENTIAL_REVOKE(id)
    [] closure.lambda = "VERIFIER_PRESENTATION" -> VERIFIER_PRESENTATION(id)
    [] closure.lambda = "GOVERNANCE_SCHEMA_TEMPLATE" -> GOVERNANCE_SCHEMA_TEMPLATE(id)
    [] closure.lambda = "GOVERNANCE_CREDENTIAL_TEMPLATE" -> GOVERNANCE_CREDENTIAL_TEMPLATE(id)
    [] closure.lambda = "BASICMESSAGES_SEND" -> BASICMESSAGES_SEND(id)
    [] closure.lambda = "MULTITENANCY_RESERVATION" -> MULTITENANCY_RESERVATION(id)
    [] closure.lambda = "MULTITENANCY_RESERVATION_CHECK_IN" -> MULTITENANCY_RESERVATION_CHECK_IN(id)
    [] closure.lambda = "MULTITENANCY_TENANT_TOKEN" -> MULTITENANCY_TENANT_TOKEN(id)
    [] closure.lambda = "MULTITENANCY_WALLET_TOKEN" -> MULTITENANCY_WALLET_TOKEN(id)

\* export const TABLE_OPT = { ROWS_DEFAULT: 10, ROWS_OPTIONS: [10, 25, 50] }
ROWS_DEFAULT == 10

\* Mutant of ROWS_OPTIONS: the options moved up by one, the default dropped.
ROWS_OPTIONS_NoDefault == <<25, 50, 100>>

ROWS_OPTIONS == <<10, 25, 50>>

TABLE_OPT == [ROWS_DEFAULT |-> ROWS_DEFAULT, ROWS_OPTIONS |-> ROWS_OPTIONS]

\* Mutant of CONNECTION_STATUSES: RESPONSE given the value of ACTIVE.
CONNECTION_STATUSES_Duplicate ==
    [INVITATION |-> "invitation", ACTIVE |-> "active", RESPONSE |-> "active"]

\* export const CONNECTION_STATUSES = { ... }
CONNECTION_STATUSES ==
    [INVITATION |-> "invitation", ACTIVE |-> "active", RESPONSE |-> "response"]

\* Mutant of RESERVATION_STATUSES: the UI-only state stored as "checked_in".
RESERVATION_STATUSES_NoShowWallet ==
    [APPROVED |-> "approved", CHECKED_IN |-> "checked_in", DENIED |-> "denied",
     REQUESTED |-> "requested", SHOW_WALLET |-> "checked_in"]

\* export const RESERVATION_STATUSES = { ... }
RESERVATION_STATUSES ==
    [APPROVED |-> "approved", CHECKED_IN |-> "checked_in", DENIED |-> "denied",
     REQUESTED |-> "requested", SHOW_WALLET |-> "show_wallet"]

\* ------------------------------------------------------------------------
\* State: the four exported objects as they are now, the identifiers the
\* consumer holds, what its latest call in each slot returned, and how
\* many property writes it has made.

VARIABLES tableOpt, apiPath, connectionStatuses, reservationStatuses,
          args, ret, writes

exported == <<tableOpt, apiPath, connectionStatuses, reservationStatuses>>

vars == <<tableOpt, apiPath, connectionStatuses, reservationStatuses,
          args, ret, writes>>

NoCall == [fn |-> "none", out |-> << >>]

\* Module initialization: each export is bound to its object literal.
Init ==
    /\ tableOpt = TABLE_OPT
    /\ apiPath = API_PATH
    /\ connectionStatuses = CONNECTION_STATUSES
    /\ reservationStatuses = RESERVATION_STATUSES
    /\ args \in [Slots -> Ids]
    /\ ret = [s \in Slots |-> NoCall]
    /\ writes = 0

\* Mutant of Call: the closure numbers its results with a hidden counter,
\* here whether a call has been made before.
CallCounting(slot, name) ==
    /\ ret' = [ret EXCEPT ![slot] =
                 [fn |-> name,
                  out |-> Apply(apiPath[name], args[slot])
                            \o (IF \E t \in Slots : ret[t].fn # "none"
                                THEN <<"1">> ELSE << >>)]]
    /\ UNCHANGED <<exported, args, writes>>

\* API_PATH.<name>(args[slot]): the property is read from the object as it
\* is now and the closure found there is called.
Call(slot, name) ==
    /\ ret' = [ret EXCEPT ![slot] =
                 [fn |-> name, out |-> Apply(apiPath[name], args[slot])]]
    /\ UNCHANGED <<exported, args, writes>>

\* TABLE_OPT.ROWS_DEFAULT = n: the object literal is neither frozen nor
\* declared `as const`, so the assignment type-checks and takes effect.
AssignRowsDefault(n) ==
    /\ writes < MaxWrites
    /\ tableOpt' = [tableOpt EXCEPT !.ROWS_DEFAULT = n]
    /\ writes' = writes + 1
    /\ UNCHANGED <<apiPath, connectionStatuses, reservationStatuses, args, ret>>

\* TABLE_OPT.ROWS_OPTIONS.push(n): the list is an ordinary mutable array.
PushRowsOption(n) ==
    /\ writes < MaxWrites
    /\ tableOpt' = [tableOpt EXCEPT !.ROWS_OPTIONS = Append(@, n)]
    /\ writes' = writes + 1
    /\ UNCHANGED <<apiPath, connectionStatuses, reservationStatuses, args, ret>>

\* API_PATH.<key> = API_PATH.<from>, for two entries of the same type (two
\* strings, or two (id: string) => string closures).
AssignApiPath(key, from) ==
    /\ writes < MaxWrites
    /\ (key \in TemplatedNames) = (from \in TemplatedNames)
    /\ apiPath' = [apiPath EXCEPT ![key] = apiPath[from]]
    /\ writes' = writes + 1
    /\ UNCHANGED <<tableOpt, connectionStatuses, reservationStatuses, args, ret>>

\* CONNECTION_STATUSES.<key> = value
AssignConnectionStatus(key, value) ==
    /\ writes < MaxWrites
    /\ connectionStatuses' = [connectionStatuses EXCEPT ![key] = value]
    /\ writes' = writes + 1
    /\ UNCHANGED <<tableOpt, apiPath, reservationStatuses, args, ret>>

\* RESERVATION_STATUSES.<key> = value
AssignReservationStatus(key, value) ==
    /\ writes < MaxWrites
    /\ reservationStatuses' = [reservationStatuses EXCEPT ![key] = value]
    /\ writes' = writes + 1
    /\ UNCHANGED <<tableOpt, apiPath, connectionStatuses, args, ret>>

\* Values a consumer writes.
WrittenRows == {25, 100}
WrittenFrom == {"TENANT_SELF", "CONNECTION"}
WrittenStatuses == {"active", "checked_in"}

\* A consumer that only calls the templated paths.
Next == \E slot \in Slots, name \in TemplatedNames : Call(slot, name)

Spec == Init /\ [][Next]_vars

\* A consumer that also assigns to the objects' properties.  It holds the
\* identifiers "abc-123" and "conn-1".
InitWrite ==
    /\ Init
    /\ args = [s \in Slots |->
                 IF s = "first"
                 THEN <<"a", "b", "c", "-", "1", "2", "3">>
                 ELSE <<"c", "o", "n", "n", "-", "1">>]

NextWrite ==
    \/ \E slot \in Slots, name \in TemplatedNames : Call(slot, name)
    \/ \E n \in WrittenRows : AssignRowsDefault(n)
    \/ \E n \in WrittenRows : PushRowsOption(n)
    \/ \E key \in DOMAIN API_PATH, from \in WrittenFrom : AssignApiPath(key, from)
    \/ \E key \in DOMAIN CONNECTION_STATUSES, value \in WrittenStatuses :
          AssignConnectionStatus(key, value)
    \/ \E key \in DOMAIN RESERVATION_STATUSES, value \in WrittenStatuses :
          AssignReservationStatus(key, value)

SpecWrite == InitWrite /\ [][NextWrite]_vars

\* ------------------------------------------------------------------------
\* Properties.

Called(s) == ret[s].fn # "none"

BeginsWithSlash(path) == Len(path) > 0 /\ path[1] = "/"

HasSlash(id) == \E i \in 1..Len(id) : id[i] = "/"

\* C1: every templated path returns its fixed prefix, then the id
\* unchanged, then its fixed suffix: one split of the function's path for
\* the empty id gives the prefix and the suffix of every call of it, and
\* INNKEEPER_TENANT("abc-123") = "/innkeeper/tenants/abc-123",
\* BASICMESSAGES_SEND("conn-1") = "/connections/conn-1/send-message".
C1_PrefixIdSuffix ==
    /\ \A s \in Slots :
         Called(s) =>
           LET bare == Apply(apiPath[ret[s].fn], << >>)
           IN  \E k \in 0..Len(bare) :
                 \A t \in Slots :
                   ret[t].fn = ret[s].fn =>
                     ret[t].out = SubSeq(bare, 1, k) \o args[t]
                                    \o SubSeq(bare, k + 1, Len(bare))
    /\ \A s \in Slots :
         /\ (ret[s].fn = "INNKEEPER_TENANT"
               /\ args[s] = <<"a", "b", "c", "-", "1", "2", "3">>)
            => ret[s].out =
                 <<"/", "i", "n", "n", "k", "e", "e", "p", "e", "r", "/",
                   "t", "e", "n", "a", "n", "t", "s", "/",
                   "a", "b", "c", "-", "1", "2", "3">>
         /\ (ret[s].fn = "BASICMESSAGES_SEND"
               /\ args[s] = <<"c", "o", "n", "n", "-", "1">>)
            => ret[s].out =
                 <<"/", "c", "o", "n", "n", "e", "c", "t", "i", "o", "n", "s",
                   "/", "c", "o", "n", "n", "-", "1",
                   "/", "s", "e", "n", "d", "-", "m", "e", "s", "s", "a", "g",
                   "e">>

\* Both examples of C1 have been called, and an id holding "/" was passed.
C1_Witness ==
    /\ ret["first"].fn = "INNKEEPER_TENANT"
    /\ args["first"] = <<"a", "b", "c", "-", "1", "2", "3">>
    /\ ret["second"].fn = "BASICMESSAGES_SEND"
    /\ args["second"] = <<"c", "o", "n", "n", "-", "1">>

\* A templated path was called with an id that holds "/" and returned it
\* unescaped.
C1_WitnessSlash ==
    \E s \in Slots :
      /\ Called(s)
      /\ HasSlash(args[s])
      /\ \E k \in 0..(Len(ret[s].out) - Len(args[s])) :
           SubSeq(ret[s].out, k + 1, k + Len(args[s])) = args[s]

\* The literals as documented: those the claim and the specification's
\* table of endpoints spell out in full.
DocumentedLiteral ==
  [
    CONFIG |->
      <<"/", "c", "o", "n", "f", "i", "g">>,
    EMAIL_CONFIRMATION |->
      <<"/", "e", "m", "a", "i", "l", "/", "r", "e", "s", "e", "r", "v", "a",
        "t", "i", "o", "n", "C", "o", "n", "f", "i", "r", "m", "a", "t", "i",
        "o", "n">>,
    EMAIL_STATUS |->
      <<"/", "e", "m", "a", "i", "l", "/", "r", "e", "s", "e", "r", "v", "a",
        "t", "i", "o", "n", "S", "t", "a", "t", "u", "s">>,
    INNKEEPER_TOKEN |->
      <<"/", "i", "n", "n", "k", "e", "e", "p", "e", "r", "/", "t", "o", "k",
        "e", "n">>,
    INNKEEPER_TENANTS |->
      <<"/", "i", "n", "n", "k", "e", "e", "p", "e", "r", "/", "t", "e", "n",
        "a", "n", "t", "s", "/">>,
    INNKEEPER_RESERVATIONS |->
      <<"/", "i", "n", "n", "k", "e", "e", "p", "e", "r", "/", "r", "e", "s",
        "e", "r", "v", "a", "t", "i", "o", "n", "s", "/">>,
    OIDC_INNKEEPER_LOGIN |->
      <<"/", "a", "p", "i", "/", "i", "n", "n", "k", "e", "e", "p", "e", "r",
        "L", "o", "g", "i", "n">>,
    TENANT_TOKEN |->
      <<"/", "t", "e", "n", "a", "n", "t", "/", "t", "o", "k", "e", "n">>,
    CONNECTIONS |->
      <<"/", "c", "o", "n", "n", "e", "c", "t", "i", "o", "n", "s">>,
    CONNECTIONS_CREATE_INVITATION |->
      <<"/", "c", "o", "n", "n", "e", "c", "t", "i", "o", "n", "s", "/", "c",
        "r", "e", "a", "t", "e", "-", "i", "n", "v", "i", "t", "a", "t", "i",
        "o", "n">>,
    HOLDER_CREDENTIALS |->
      <<"/", "t", "e", "n", "a", "n", "t", "/", "v", "1", "/", "h", "o", "l",
        "d", "e", "r", "/", "c", "r", "e", "d", "e", "n", "t", "i", "a", "l",
        "s", "/">>,
    HOLDER_PRESENTATIONS |->
      <<"/", "t", "e", "n", "a", "n", "t", "/", "v", "1", "/", "h", "o", "l",
        "d", "e", "r", "/", "p", "r", "e", "s", "e", "n", "t", "a", "t", "i",
        "o", "n", "s", "/">>,
    ISSUER_CREDENTIALS |->
      <<"/", "t", "e", "n", "a", "n", "t", "/", "v", "1", "/", "i", "s", "s",
        "u", "e", "r", "/", "c", "r", "e", "d", "e", "n", "t", "i", "a", "l",
        "s", "/">>,
    VERIFIER_PRESENTATIONS |->
      <<"/", "t", "e", "n", "a", "n", "t", "/", "v", "1", "/", "v", "e", "r",
        "i", "f", "i", "e", "r", "/", "p", "r", "e", "s", "e", "n", "t", "a",
        "t", "i", "o", "n", "s", "/">>,
    BASICMESSAGES |->
      <<"/", "b", "a", "s", "i", "c", "m", "e", "s", "s", "a", "g", "e", "s">>,
    TENANT_SELF |->
      <<"/", "t", "e", "n", "a", "n", "t">>,
    TENANT_ENDORSER_CONNECTION |->
      <<"/", "t", "e", "n", "a", "n", "t", "/", "e", "n", "d", "o", "r", "s",
        "e", "r", "-", "c", "o", "n", "n", "e", "c", "t", "i", "o", "n">>,
    TENANT_ENDORSER_INFO |->
      <<"/", "t", "e", "n", "a", "n", "t", "/", "e", "n", "d", "o", "r", "s",
        "e", "r", "-", "i", "n", "f", "o">>,
    TENANT_REGISTER_PUBLIC_DID |->
      <<"/", "t", "e", "n", "a", "n", "t", "/", "r", "e", "g", "i", "s", "t",
        "e", "r", "-", "p", "u", "b", "l", "i", "c", "-", "d", "i", "d">>,
    MULTITENANCY_RESERVATIONS |->
      <<"/", "m", "u", "l", "t", "i", "t", "e", "n", "a", "n", "c", "y", "/",
        "r", "e", "s", "e", "r", "v", "a", "t", "i", "o", "n", "s">>,
    WALLET_DID_PUBLIC |->
      <<"/", "w", "a", "l", "l", "e", "t", "/", "d", "i", "d", "/", "p", "u",
        "b", "l", "i", "c">>
  ]

\* The tails of the five entries the table of endpoints abbreviates
\* (".../presentation_templates/", ".../schema_templates/" (+ "/import"),
\* ".../credential_templates/"), and the ad-hoc request under the verifier
\* presentations.
DocumentedTail ==
  [
    VERIFIER_PRESENTATION_ADHOC_REQUEST |->
      <<"/", "t", "e", "n", "a", "n", "t", "/", "v", "1", "/", "v", "e", "r",
        "i", "f", "i", "e", "r", "/", "p", "r", "e", "s", "e", "n", "t", "a",
        "t", "i", "o", "n", "s", "/", "a", "d", "h", "o", "c", "-", "r", "e",
        "q", "u", "e", "s", "t">>,
    VERIFIER_PRESENTATION_TEMPLATES |->
      <<"/", "p", "r", "e", "s", "e", "n", "t", "a", "t", "i", "o", "n", "_",
        "t", "e", "m", "p", "l", "a", "t", "e", "s", "/">>,
    GOVERNANCE_SCHEMA_TEMPLATES |->
      <<"/", "s", "c", "h", "e", "m", "a", "_", "t", "e", "m", "p", "l", "a",
        "t", "e", "s", "/">>,
    GOVERNANCE_SCHEMA_TEMPLATES_IMPORT |->
      <<"/", "s", "c", "h", "e", "m", "a", "_", "t", "e", "m", "p", "l", "a",
        "t", "e", "s", "/", "i", "m", "p", "o", "r", "t">>,
    GOVERNANCE_CREDENTIAL_TEMPLATES |->
      <<"/", "c", "r", "e", "d", "e", "n", "t", "i", "a", "l", "_", "t", "e",
        "m", "p", "l", "a", "t", "e", "s", "/">>
  ]

EndsWith(path, tail) ==
    /\ Len(path) >= Len(tail)
    /\ SubSeq(path, Len(path) - Len(tail) + 1, Len(path)) = tail

\* C2: every constant path of API_PATH equals its documented literal
\* exactly (and each of the five abbreviated ones ends with its documented
\* tail), whatever templated paths have been called.
C2_ConstantLiterals ==
    /\ DOMAIN DocumentedLiteral \cup DOMAIN DocumentedTail = ConstantNames
    /\ \A name \in DOMAIN DocumentedLiteral :
         apiPath[name] = DocumentedLiteral[name]
    /\ \A name \in DOMAIN DocumentedTail :
         EndsWith(apiPath[name], DocumentedTail[name])

\* The constants are read after both slots have called a templated path.
C2_Witness ==
    /\ \A s \in Slots : Called(s)
    /\ apiPath.MULTITENANCY_RESERVATIONS = DocumentedLiteral.MULTITENANCY_RESERVATIONS
    /\ apiPath.INNKEEPER_TENANTS = ret["first"].out
    /\ args["first"] = << >>

\* C3: all path strings begin with "/": every constant entry of API_PATH
\* is non-empty with first character "/", and so is every string a
\* templated path returns, for the empty id and ids holding "/" as well.
C3_BeginWithSlash ==
    /\ \A name \in ConstantNames : BeginsWithSlash(apiPath[name])
    /\ \A s \in Slots : Called(s) => BeginsWithSlash(ret[s].out)

\* Templated paths were called with the empty id and with an id that
\* itself begins with "/".
C3_Witness ==
    /\ Called("first") /\ args["first"] = << >>
    /\ Called("second") /\ BeginsWithSlash(args["second"])
    /\ ret["first"].fn = "CONNECTION"
    /\ ret["second"].fn = "CONNECTION"

\* C4 (as claimed): the exported objects are immutable: after any reads,
\* calls and attempted writes every entry still has its initial value.
C4_Immutable ==
    /\ tableOpt = TABLE_OPT
    /\ apiPath = API_PATH
    /\ connectionStatuses = CONNECTION_STATUSES
    /\ reservationStatuses = RESERVATION_STATUSES

\* C5: ROWS_DEFAULT is 10 and an element of ROWS_OPTIONS, which is the
\* list [10, 25, 50] in that order, strictly ascending.
C5_RowsOptions ==
    LET options == tableOpt.ROWS_OPTIONS
    IN  /\ tableOpt.ROWS_DEFAULT = 10
        /\ \E i \in 1..Len(options) : options[i] = tableOpt.ROWS_DEFAULT
        /\ options = <<10, 25, 50>>
        /\ \A i \in 1..(Len(options) - 1) : options[i] < options[i + 1]

\* The table options are read once both slots have called: the default is
\* the first of three options.
C5_Witness ==
    /\ \A s \in Slots : Called(s)
    /\ Len(tableOpt.ROWS_OPTIONS) = 3
    /\ tableOpt.ROWS_OPTIONS[1] = tableOpt.ROWS_DEFAULT

Values(object) == {object[key] : key \in DOMAIN object}

\* C6: RESERVATION_STATUSES has exactly 5 pairwise distinct values,
\* "approved", "checked_in", "denied", "requested" and "show_wallet", and
\* SHOW_WALLET differs from each of the four backend-reported values.
C6_ReservationStatuses ==
    /\ DOMAIN reservationStatuses =
         {"APPROVED", "CHECKED_IN", "DENIED", "REQUESTED", "SHOW_WALLET"}
    /\ Values(reservationStatuses) =
         {"approved", "checked_in", "denied", "requested", "show_wallet"}
    /\ Cardinality(Values(reservationStatuses)) = 5
    /\ \A key \in {"APPROVED", "CHECKED_IN", "DENIED", "REQUESTED"} :
         reservationStatuses.SHOW_WALLET # reservationStatuses[key]

\* The reservation statuses are compared once the check-in path has been
\* called: the UI-only state is not the steady state.
C6_Witness ==
    /\ \E s \in Slots : ret[s].fn = "MULTITENANCY_RESERVATION_CHECK_IN"
    /\ reservationStatuses.SHOW_WALLET = "show_wallet"
    /\ reservationStatuses.CHECKED_IN = "checked_in"

\* C7: CONNECTION_STATUSES has exactly 3 pairwise distinct values,
\* INVITATION = "invitation", ACTIVE = "active", RESPONSE = "response",
\* and no other entry.
C7_ConnectionStatuses ==
    /\ DOMAIN connectionStatuses = {"INVITATION", "ACTIVE", "RESPONSE"}
    /\ connectionStatuses.INVITATION = "invitation"
    /\ connectionStatuses.ACTIVE = "active"
    /\ connectionStatuses.RESPONSE = "response"
    /\ Cardinality(Values(connectionStatuses)) = 3

\* The connection statuses are compared once a connection's path has been
\* called.
C7_Witness ==
    /\ \E s \in Slots : ret[s].fn = "CONNECTION"
    /\ Cardinality(Values(connectionStatuses)) = 3
    /\ connectionStatuses.RESPONSE = "response"

SameCall(s, t) ==
    /\ Called(s) /\ Called(t)
    /\ ret[s].fn = ret[t].fn
    /\ args[s] = args[t]

C9_NoRejection ==
    /\ \A s \in Slots :
         Called(s) =>
           /\ ret[s].out # TypeError
           /\ Len(ret[s].out) >= Len(args[s])
    /\ \A s, t \in Slots :
         (Called(s) /\ ret[t].fn = ret[s].fn /\ args[s] = << >>) =>
           \E k \in 0..Len(ret[s].out) :
             ret[t].out = SubSeq(ret[s].out, 1, k) \o args[t]
                            \o SubSeq(ret[s].out, k + 1, Len(ret[s].out))
    /\ \A s \in Slots :
         /\ (ret[s].fn = "INNKEEPER_TENANT" /\ args[s] = << >>)
            => ret[s].out =
                 <<"/", "i", "n", "n", "k", "e", "e", "p", "e", "r", "/",
                   "t", "e", "n", "a", "n", "t", "s", "/">>
         /\ (ret[s].fn = "MULTITENANCY_RESERVATION_CHECK_IN"
               /\ args[s] = << >>)
            => ret[s].out =
                 <<"/", "m", "u", "l", "t", "i", "t", "e", "n", "a", "n", "c",
                   "y", "/", "r", "e", "s", "e", "r", "v", "a", "t", "i", "o",
                   "n", "s", "/", "/", "c", "h", "e", "c", "k", "-", "i", "n">>

\* The check-in path was called with the empty id and with "//".
C9_Witness ==
    /\ ret["first"].fn = "MULTITENANCY_RESERVATION_CHECK_IN"
    /\ args["first"] = << >>
    /\ ret["second"].fn = "MULTITENANCY_RESERVATION_CHECK_IN"
    /\ args["second"] = <<"/", "/">>

PlainId(id) == id # << >> /\ ~HasSlash(id)

\* C10: two different templated paths called with non-empty ids that hold
\* no "/" never return the same string, and each templated path is
\* injective: the same function returned the same string only for the
\* same id.
C10_NoCollision ==
    /\ \A s, t \in Slots :
         (/\ Called(s) /\ Called(t)
          /\ ret[s].fn # ret[t].fn
          /\ PlainId(args[s]) /\ PlainId(args[t]))
         => ret[s].out # ret[t].out
    /\ \A s, t \in Slots :
         (/\ Called(s) /\ Called(t)
          /\ ret[s].fn = ret[t].fn
          /\ ret[s].out = ret[t].out)
         => args[s] = args[t]

\* Two paths under "/connections/" were called with the ids "x" and
\* "conn-1".
C10_Witness ==
    /\ ret["first"].fn = "CONNECTIONS_INVITATION"
    /\ args["first"] = <<"x">>
    /\ ret["second"].fn = "BASICMESSAGES_SEND"
    /\ args["second"] = <<"c", "o", "n", "n", "-", "1">>
    /\ ret["first"].out # ret["second"].out

\* Without the precondition of C10: CONNECTION("x/invitation") and
\* CONNECTIONS_INVITATION("x") have returned the same string.
C10_CollisionExample ==
    /\ ret["first"].fn = "CONNECTION"
    /\ args["first"] =
         <<"x", "/", "i", "n", "v", "i", "t", "a", "t", "i", "o", "n">>
    /\ ret["second"].fn = "CONNECTIONS_INVITATION"
    /\ args["second"] = <<"x">>
    /\ ret["first"].out = ret["second"].out

====
